---- MODULE Spec2Model ----
(***************************************************************************)
(* A model of client/crypto/asn1utils.c:                                   *)
(*   - ecdsa_asn1_get_signature, step by step (specification Spec);        *)
(*   - the asn1_tags table and its binary search (specification SpecTag);  *)
(*   - asn1_value_integer (specification SpecInt);                         *)
(*   - asn1_tag_dump and print_cb (specification SpecDump).                *)
(* Bytes are the integers 0..255.  A pointer into a buffer is the 1-based  *)
(* index of the byte it points at; the end pointer of a buffer of n bytes  *)
(* is n + 1.  A big integer is its big-endian magnitude without leading    *)
(* zero bytes (the empty sequence is 0).                                   *)
(***************************************************************************)
EXTENDS Integers, Sequences, FiniteSets, TLC

VARIABLES
    \* ecdsa_asn1_get_signature
    inp,        \* how the caller's buffer was built (history only, never read by the code)
    signature,  \* the caller's buffer
    rval, sval, \* the caller's two output buffers
    p, end,     \* the DER cursor and the end pointer
    len,        \* the length the last asn1 call stored
    xmpi,       \* the mbedtls_mpi
    res,        \* the status
    pc,         \* where the call stands
    \* asn1_get_tag
    tlvtag,     \* the tag looked up
    found,      \* index of the entry returned (0: not looked up yet)
    \* asn1_value_integer
    vbytes, vstart, vend, vout,
    \* print_cb / asn1_tag_dump
    node, dump

sigvars  == <<inp, signature, rval, sval, p, end, len, xmpi, res, pc>>
tagvars  == <<tlvtag, found>>
intvars  == <<vbytes, vstart, vend, vout>>
dumpvars == <<node, dump>>
vars     == <<sigvars, tagvars, intvars, dumpvars>>
notsig   == <<tagvars, intvars, dumpvars>>

----------------------------------------------------------------------------
(* Bounds of the model.                                                    *)
MaxPad   == 1   \* leading 0x00 bytes in front of an INTEGER's magnitude
MaxExtra == 1   \* bytes by which a magnitude may exceed the output width
MaxTrail == 1   \* bytes appended after the two INTEGERs
MaxDelta == 1   \* by how much the declared SEQUENCE length may be off
MaxLow   == 1   \* low bytes tried for two-byte tag codes
MaxLen   == 3   \* bytes of a packed-decimal value

----------------------------------------------------------------------------
(* Program constants.                                                      *)
RSLEN            == 32   \* the width written to rval and sval
STATUS_NULL      == 1
STATUS_TRAILING  == 2
ASN1_SEQUENCE_TAG == 48  \* MBEDTLS_ASN1_CONSTRUCTED | MBEDTLS_ASN1_SEQUENCE
\* mbedtls (asn1.h, bignum.h)
MBEDTLS_ASN1_INTEGER                == 2
MBEDTLS_ERR_ASN1_OUT_OF_DATA        == -96
MBEDTLS_ERR_ASN1_UNEXPECTED_TAG     == -98
MBEDTLS_ERR_ASN1_INVALID_LENGTH     == -100
MBEDTLS_ERR_MPI_BUFFER_TOO_SMALL    == -8

----------------------------------------------------------------------------
(* Byte-sequence helpers.                                                  *)
Zeros(n) == [i \in 1..n |-> 0]

Slice(s, from, n) == [i \in 1..n |-> s[from + i - 1]]

RECURSIVE StripZeros(_)
StripZeros(s) ==
    IF s = <<>> THEN <<>>
    ELSE IF s[1] = 0 THEN StripZeros(Tail(s)) ELSE s

RECURSIVE BigEndian(_, _, _)
\* the value of the n bytes of buf from index from
BigEndian(buf, from, n) ==
    IF n = 0 THEN 0
    ELSE BigEndian(buf, from, n - 1) * 256 + buf[from + n - 1]

----------------------------------------------------------------------------
(* mbedtls, as ecdsa_asn1_get_signature uses it.                           *)

\* the final bound check of mbedtls_asn1_get_len
asn1_len_check(l, q, e) ==
    IF l > e - q
    THEN [ret |-> MBEDTLS_ERR_ASN1_OUT_OF_DATA, p |-> q, len |-> l]
    ELSE [ret |-> 0, p |-> q, len |-> l]

mbedtls_asn1_get_len(buf, q, e) ==
    IF e - q < 1
    THEN [ret |-> MBEDTLS_ERR_ASN1_OUT_OF_DATA, p |-> q, len |-> 0]
    ELSE IF buf[q] < 128
    THEN asn1_len_check(buf[q], q + 1, e)
    ELSE LET n == buf[q] % 128 IN
         IF n \in 1..4
         THEN IF e - q < n + 1
              THEN [ret |-> MBEDTLS_ERR_ASN1_OUT_OF_DATA, p |-> q, len |-> 0]
              ELSE asn1_len_check(BigEndian(buf, q + 1, n), q + n + 1, e)
         ELSE [ret |-> MBEDTLS_ERR_ASN1_INVALID_LENGTH, p |-> q, len |-> 0]

mbedtls_asn1_get_tag(buf, q, e, tag) ==
    IF e - q < 1
    THEN [ret |-> MBEDTLS_ERR_ASN1_OUT_OF_DATA, p |-> q, len |-> 0]
    ELSE IF buf[q] # tag
    THEN [ret |-> MBEDTLS_ERR_ASN1_UNEXPECTED_TAG, p |-> q, len |-> 0]
    ELSE mbedtls_asn1_get_len(buf, q + 1, e)

\* mbedtls_mpi_read_binary: the magnitude of the big-endian bytes
mbedtls_mpi_read_binary(buf, q, n) == StripZeros(Slice(buf, q, n))

mbedtls_asn1_get_mpi(buf, q, e) ==
    LET t == mbedtls_asn1_get_tag(buf, q, e, MBEDTLS_ASN1_INTEGER) IN
    IF t.ret # 0
    THEN [ret |-> t.ret, p |-> t.p, len |-> t.len, X |-> <<>>]
    ELSE [ret |-> 0, p |-> t.p + t.len, len |-> t.len,
          X |-> mbedtls_mpi_read_binary(buf, t.p, t.len)]

\* mbedtls_mpi_write_binary: nothing is written when the buffer is too small
mbedtls_mpi_write_binary(X, old, buflen) ==
    IF buflen < Len(X)
    THEN [ret |-> MBEDTLS_ERR_MPI_BUFFER_TOO_SMALL, buf |-> old]
    ELSE [ret |-> 0, buf |-> Zeros(buflen - Len(X)) \o X]

----------------------------------------------------------------------------
(* The buffers a caller may pass: DER SEQUENCE{INTEGER, INTEGER} and the   *)
(* ways it can be malformed.                                               *)

Filler == 170   \* content of the caller's output buffers before the call
Unwritten == [i \in 1..RSLEN |-> Filler]

MagLens == {1, RSLEN} \cup {RSLEN + k : k \in 1..MaxExtra}

\* a magnitude of n bytes with first byte top (non-zero)
Mag(n, top, base) == [i \in 1..n |-> IF i = 1 THEN top ELSE base + i]

Mags(base, tops) == {<<>>} \cup {Mag(n, top, base) : n \in MagLens, top \in tops}

\* the DER length octets of n
DerLen(n) ==
    IF n < 128 THEN <<n>>
    ELSE IF n < 256 THEN <<129, n>>
    ELSE <<130, n \div 256, n % 256>>

\* length octets of n in a chosen form: 0 DER, k in 1..4 long form of k
\* octets, 5 the length-of-length 5 that no parser accepts
LenForm(k, n) ==
    IF k = 0 THEN DerLen(n)
    ELSE <<128 + k>> \o Zeros(k - 1) \o <<n>>

IntEnc(tag, pad, mag) == <<tag>> \o DerLen(pad + Len(mag)) \o Zeros(pad) \o mag

Body(i) == IntEnc(i.tag1, i.pad1, i.mag1) \o IntEnc(i.tag2, i.pad2, i.mag2)

Encode(i) ==
    LET b    == Body(i)
        full == <<i.seqtag>> \o LenForm(i.form, Len(b) + i.delta) \o b
                  \o [k \in 1..i.trail |-> 255]
    IN  IF i.null = "signaturelen" THEN <<>>
        ELSE SubSeq(full, 1, Len(full) - i.cut)

Plain == [null |-> "none", seqtag |-> ASN1_SEQUENCE_TAG, form |-> 0, delta |-> 0,
          trail |-> 0, cut |-> 0, tag1 |-> MBEDTLS_ASN1_INTEGER,
          tag2 |-> MBEDTLS_ASN1_INTEGER]

Shapes ==
    {[Plain EXCEPT !.delta = d, !.trail = t] :
        d \in (0 - MaxDelta)..MaxDelta, t \in 0..MaxTrail}
    \cup {[Plain EXCEPT !.delta = d, !.cut = 1] : d \in (0 - MaxDelta)..0}
    \cup {[Plain EXCEPT !.form = k] : k \in 1..5}
    \cup {[Plain EXCEPT !.seqtag = 49], [Plain EXCEPT !.tag1 = 3],
          [Plain EXCEPT !.tag2 = 4]}
    \cup {[Plain EXCEPT !.null = n] : n \in {"signature", "signaturelen", "rval", "sval"}}

Inputs ==
    {[null |-> s.null, seqtag |-> s.seqtag, form |-> s.form, delta |-> s.delta,
      trail |-> s.trail, cut |-> s.cut, tag1 |-> s.tag1, tag2 |-> s.tag2,
      pad1 |-> p1, mag1 |-> m1, pad2 |-> p2, mag2 |-> m2] :
        s \in Shapes, p1 \in 0..MaxPad, p2 \in 0..MaxPad,
        m1 \in Mags(16, {1, 128}), m2 \in Mags(80, {2, 128})}

----------------------------------------------------------------------------
(* ecdsa_asn1_get_signature                                                *)

Finish(status) ==
    /\ res' = status
    /\ pc' = "done"

\* if (!signature || !signaturelen || !rval || !sval) return 1;
\* p = signature; end = p + signaturelen;
NullCheck ==
    /\ pc = "call"
    /\ IF inp.null # "none"
       THEN /\ Finish(STATUS_NULL)
            /\ UNCHANGED <<p, end>>
       ELSE /\ p' = 1
            /\ end' = 1 + Len(signature)
            /\ res' = 0
            /\ pc' = "seq"
    /\ UNCHANGED <<inp, signature, rval, sval, len, xmpi, notsig>>

\* mbedtls_asn1_get_tag(&p, end, &len, CONSTRUCTED | SEQUENCE)
GetSequence ==
    /\ pc = "seq"
    /\ LET t == mbedtls_asn1_get_tag(signature, p, end, ASN1_SEQUENCE_TAG) IN
       /\ p' = t.p
       /\ len' = t.len
       /\ IF t.ret = 0
          THEN res' = 0 /\ pc' = "mpi_r"
          ELSE Finish(t.ret)
    /\ UNCHANGED <<inp, signature, rval, sval, end, xmpi, notsig>>

\* res = mbedtls_asn1_get_mpi(&p, end, &xmpi); if (res) goto exit;   (first)
GetMpiR ==
    /\ pc = "mpi_r"
    /\ LET t == mbedtls_asn1_get_mpi(signature, p, end) IN
       /\ p' = t.p
       /\ xmpi' = t.X
       /\ IF t.ret = 0
          THEN res' = 0 /\ pc' = "write_r"
          ELSE Finish(t.ret)
    /\ UNCHANGED <<inp, signature, rval, sval, end, len, notsig>>

\* WriteR without its "if (res) goto exit"
WriteR_NoExit ==
    /\ pc = "write_r"
    /\ LET w == mbedtls_mpi_write_binary(xmpi, rval, RSLEN) IN
       /\ rval' = w.buf
       /\ res' = w.ret
       /\ pc' = "mpi_s"
    /\ xmpi' = <<>>
    /\ UNCHANGED <<inp, signature, sval, p, end, len, notsig>>

\* res = mbedtls_mpi_write_binary(&xmpi, rval, 32); if (res) goto exit;
WriteR ==
    /\ pc = "write_r"
    /\ LET w == mbedtls_mpi_write_binary(xmpi, rval, RSLEN) IN
       /\ rval' = w.buf
       /\ IF w.ret = 0
          THEN res' = 0 /\ pc' = "mpi_s"
          ELSE Finish(w.ret)
    /\ xmpi' = <<>>
    /\ UNCHANGED <<inp, signature, sval, p, end, len, notsig>>

\* GetMpiS without its "if (res) goto exit"
GetMpiS_NoExit ==
    /\ pc = "mpi_s"
    /\ LET t == mbedtls_asn1_get_mpi(signature, p, end) IN
       /\ p' = t.p
       /\ xmpi' = t.X
       /\ res' = t.ret
       /\ pc' = "write_s"
    /\ UNCHANGED <<inp, signature, rval, sval, end, len, notsig>>

\* res = mbedtls_asn1_get_mpi(&p, end, &xmpi); if (res) goto exit;   (second)
GetMpiS ==
    /\ pc = "mpi_s"
    /\ LET t == mbedtls_asn1_get_mpi(signature, p, end) IN
       /\ p' = t.p
       /\ xmpi' = t.X
       /\ IF t.ret = 0
          THEN res' = 0 /\ pc' = "write_s"
          ELSE Finish(t.ret)
    /\ UNCHANGED <<inp, signature, rval, sval, end, len, notsig>>

\* WriteS writing the second integer to rval, as the first write does
WriteS_IntoR ==
    /\ pc = "write_s"
    /\ LET w == mbedtls_mpi_write_binary(xmpi, rval, RSLEN) IN
       /\ rval' = w.buf
       /\ IF w.ret = 0
          THEN res' = 0 /\ pc' = "check"
          ELSE Finish(w.ret)
    /\ xmpi' = <<>>
    /\ UNCHANGED <<inp, signature, sval, p, end, len, notsig>>

\* res = mbedtls_mpi_write_binary(&xmpi, sval, 32); if (res) goto exit;
WriteS ==
    /\ pc = "write_s"
    /\ LET w == mbedtls_mpi_write_binary(xmpi, sval, RSLEN) IN
       /\ sval' = w.buf
       /\ IF w.ret = 0
          THEN res' = 0 /\ pc' = "check"
          ELSE Finish(w.ret)
    /\ xmpi' = <<>>
    /\ UNCHANGED <<inp, signature, rval, p, end, len, notsig>>

\* CheckSize without the comparison of the cursor with the end
CheckSize_NoCheck ==
    /\ pc = "check"
    /\ Finish(res)
    /\ UNCHANGED <<inp, signature, rval, sval, p, end, len, xmpi, notsig>>

\* if (end != p) return 2;  exit: return res;
CheckSize ==
    /\ pc = "check"
    /\ IF end # p THEN Finish(STATUS_TRAILING) ELSE Finish(res)
    /\ UNCHANGED <<inp, signature, rval, sval, p, end, len, xmpi, notsig>>

TagIdle  == tlvtag = 0 /\ found = 0
IntIdle  == vbytes = <<>> /\ vstart = 0 /\ vend = 0 /\ vout = [done |-> FALSE]
DumpIdle == node = [null |-> TRUE] /\ dump = [pc |-> "idle"]

Init ==
    /\ inp \in Inputs
    /\ signature = Encode(inp)
    /\ rval = Unwritten
    /\ sval = Unwritten
    /\ p = 0 /\ end = 0 /\ len = 0
    /\ xmpi = <<>>
    /\ res = 0
    /\ pc = "call"
    /\ TagIdle /\ IntIdle /\ DumpIdle

Next ==
    \/ NullCheck
    \/ GetSequence
    \/ GetMpiR
    \/ WriteR
    \/ GetMpiS
    \/ WriteS
    \/ CheckSize

Spec == Init /\ [][Next]_vars

----------------------------------------------------------------------------
(* The tag table and its lookup.                                           *)

Entry(t, n, ty) == [tag |-> t, name |-> n, type |-> ty]

asn1_tags == <<
    Entry(0,   "Unknown ???",       "ASN1_TAG_GENERIC"),
    Entry(1,   "BOOLEAN",           "ASN1_TAG_BOOLEAN"),
    Entry(2,   "INTEGER",           "ASN1_TAG_INTEGER"),
    Entry(3,   "BIT STRING",        "ASN1_TAG_GENERIC"),
    Entry(4,   "OCTET STRING",      "ASN1_TAG_GENERIC"),
    Entry(5,   "NULL",              "ASN1_TAG_GENERIC"),
    Entry(6,   "OBJECT IDENTIFIER", "ASN1_TAG_OBJECT_ID"),
    Entry(12,  "UTF8String",        "ASN1_TAG_STRING"),
    Entry(16,  "SEQUENCE",          "ASN1_TAG_GENERIC"),
    Entry(17,  "SET",               "ASN1_TAG_GENERIC"),
    Entry(19,  "PrintableString",   "ASN1_TAG_STRING"),
    Entry(20,  "T61String",         "ASN1_TAG_STRING"),
    Entry(22,  "IA5String",         "ASN1_TAG_STRING"),
    Entry(23,  "UTCTime",           "ASN1_TAG_UTC_TIME"),
    Entry(24,  "GeneralizedTime",   "ASN1_TAG_UTC_TIME"),
    Entry(48,  "SEQUENCE",          "ASN1_TAG_GENERIC"),
    Entry(49,  "SET",               "ASN1_TAG_GENERIC"),
    Entry(160, "[0]",               "ASN1_TAG_GENERIC"),
    Entry(161, "[1]",               "ASN1_TAG_GENERIC"),
    Entry(162, "[2]",               "ASN1_TAG_GENERIC"),
    Entry(163, "[3]",               "ASN1_TAG_GENERIC"),
    Entry(164, "[4]",               "ASN1_TAG_GENERIC"),
    Entry(165, "[5]",               "ASN1_TAG_GENERIC") >>

\* a tag at or above 0x100 ranks as itself, a smaller one shifted left by 8
asn1_sort_tag(tag) == IF tag >= 256 THEN tag ELSE tag * 256

\* asn1_tlv_compare with its arguments exchanged
asn1_tlv_compare_swapped(tag, entry) == asn1_sort_tag(entry.tag) - asn1_sort_tag(tag)

asn1_tlv_compare(tag, entry) == asn1_sort_tag(tag) - asn1_sort_tag(entry.tag)

RECURSIVE bsearch(_, _, _)
\* the index of an entry comparing equal among asn1_tags[lo+1 .. hi], 0 for NULL
bsearch(key, lo, hi) ==
    IF lo >= hi THEN 0
    ELSE LET idx == (lo + hi) \div 2
             cmp == asn1_tlv_compare(key, asn1_tags[idx + 1])
         IN  IF cmp < 0 THEN bsearch(key, lo, idx)
             ELSE IF cmp > 0 THEN bsearch(key, idx + 1, hi)
             ELSE idx + 1

\* return tag ? tag : &asn1_tags[0];
asn1_get_tag(tag) ==
    LET t == bsearch(tag, 0, Len(asn1_tags)) IN
    IF t # 0 THEN t ELSE 1

\* the tag codes looked up: every one-byte code, and two-byte codes
TagCodes == 0..255 \cup {hi * 256 + lo : hi \in 1..255, lo \in 0..MaxLow}

Lookup ==
    /\ found = 0
    /\ found' = asn1_get_tag(tlvtag)
    /\ UNCHANGED <<tlvtag, sigvars, intvars, dumpvars>>

SigIdle ==
    /\ inp = Plain /\ signature = <<>> /\ rval = Unwritten /\ sval = Unwritten
    /\ p = 0 /\ end = 0 /\ len = 0 /\ xmpi = <<>> /\ res = 0 /\ pc = "idle"

InitTag ==
    /\ tlvtag \in TagCodes
    /\ found = 0
    /\ SigIdle /\ IntIdle /\ DumpIdle

NextTag == Lookup

SpecTag == InitTag /\ [][NextTag]_vars

----------------------------------------------------------------------------
(* asn1_value_integer: packed decimal digits of the nibbles start..end-1.  *)
(* Byte k of the value is value[k + 1].  A read at an index that is not    *)
(* below the length yields oob, a byte the caller of the operator picks.   *)

HighNibble(b) == b \div 16
LowNibble(b)  == b % 16

ByteAt(value, k, oob) == IF k < Len(value) THEN value[k + 1] ELSE oob

\* the loop with the bound i < end, one pair too far for an odd end
value_loop_to_end(i, e) == i < e

\* for (; i < end - 1; i += 2)
value_loop_cond(i, e) == i < e - 1

RECURSIVE value_loop(_, _, _, _, _, _)
value_loop(value, i, e, ret, reads, oob) ==
    IF value_loop_cond(i, e)
    THEN LET b == ByteAt(value, i \div 2, oob) IN
         value_loop(value, i + 2, e,
                    (ret * 10 + HighNibble(b)) * 10 + LowNibble(b),
                    reads \cup {i \div 2}, oob)
    ELSE [ret |-> ret, reads |-> reads]

asn1_value_integer(value, start, e, oob) ==
    IF e > Len(value) * 2 THEN [ret |-> 0, reads |-> {}]
    ELSE IF start >= e THEN [ret |-> 0, reads |-> {}]
    ELSE LET odd  == start % 2 = 1
             ret0 == IF odd THEN LowNibble(ByteAt(value, start \div 2, oob)) ELSE 0
             rd0  == IF odd THEN {start \div 2} ELSE {}
             i0   == IF odd THEN start + 1 ELSE start
             l    == value_loop(value, i0, e, ret0, rd0, oob)
         IN  IF e % 2 = 1
             THEN [ret   |-> l.ret * 10 + HighNibble(ByteAt(value, e \div 2, oob)),
                   reads |-> l.reads \cup {e \div 2}]
             ELSE l

\* 0x12, 0x34 and a byte with two nibbles above 9
SampleBytes == {18, 52, 249}

SeqsUpTo(S, n) == UNION {[1..k -> S] : k \in 0..n}

ValueInteger ==
    /\ ~vout.done
    /\ \E oob \in SampleBytes :
          LET r == asn1_value_integer(vbytes, vstart, vend, oob) IN
          vout' = [done |-> TRUE, ret |-> r.ret, reads |-> r.reads]
    /\ UNCHANGED <<vbytes, vstart, vend, sigvars, tagvars, dumpvars>>

InitInt ==
    /\ vbytes \in SeqsUpTo(SampleBytes, MaxLen)
    /\ vstart \in 0..(2 * MaxLen + 1)
    /\ vend \in 0..(2 * MaxLen + 2)
    /\ vout = [done |-> FALSE]
    /\ SigIdle /\ TagIdle /\ DumpIdle

NextInt == ValueInteger

SpecInt == InitInt /\ [][NextInt]_vars

----------------------------------------------------------------------------
(* asn1_tag_dump and print_cb.  What is printed is kept as a record: the   *)
(* name of the tag and the text of the value.                              *)

RECURSIVE OidArcsOk(_, _)
\* the bytes from k on are base-128 numbers, each ended by a byte below
\* 0x80 and none starting with the padding byte 0x80
OidArcsOk(value, k) ==
    IF k > Len(value) THEN TRUE
    ELSE IF value[k] = 128 THEN FALSE
    ELSE LET last == CHOOSE j \in k..(Len(value) + 1) :
                        /\ j = Len(value) + 1 \/ value[j] < 128
                        /\ \A m \in k..(j - 1) : value[m] >= 128
         IN  last <= Len(value) /\ OidArcsOk(value, last + 1)

MBEDTLS_ERR_OID_BUF_TOO_SMALL == -11

\* mbedtls_oid_get_numeric_string(pstr, sizeof(pstr), &asn1_buf): 0 and the
\* dotted string when the value decodes as an OID; otherwise an error, and
\* pstr is left as it was
mbedtls_oid_get_numeric_string(value, pstr) ==
    IF Len(value) > 0 /\ OidArcsOk(value, 1)
    THEN [ret |-> 0, pstr |-> "numeric oid"]
    ELSE [ret |-> MBEDTLS_ERR_OID_BUF_TOO_SMALL, pstr |-> pstr]

asn1_tag_dump_string(value) == [kind |-> "string", text |-> value]

asn1_tag_dump_boolean(value) ==
    IF Len(value) > 0
    THEN [kind |-> "boolean", text |-> IF value[1] # 0 THEN "true" ELSE "false"]
    ELSE [kind |-> "boolean", text |-> "n/a"]

asn1_tag_dump_integer(value, undef) ==
    [kind |-> "integer",
     text |-> asn1_value_integer(value, 0, Len(value) * 2, undef.byte).ret]

\* char pstr[300] is not initialized and the result of
\* mbedtls_oid_get_numeric_string is not looked at: pstr is printed as it is
asn1_tag_dump_object_id(value, undef) ==
    [kind |-> "object id",
     text |-> mbedtls_oid_get_numeric_string(value, undef.pstr).pstr]

NoValue == [kind |-> "none", text |-> ""]

\* asn1_tag_dump with UTCTime treated as an interpreted category
asn1_tag_dump_utc_consumed(n, candump, undef) ==
    IF n.null
    THEN [ret |-> FALSE, name |-> "NULL", candump |-> candump, out |-> NoValue]
    ELSE LET tag == asn1_tags[asn1_get_tag(n.tag)] IN
         CASE tag.type = "ASN1_TAG_GENERIC" ->
                [ret |-> TRUE, name |-> tag.name, candump |-> candump,
                 out |-> NoValue]
           [] tag.type = "ASN1_TAG_STRING" ->
                [ret |-> TRUE, name |-> tag.name, candump |-> FALSE,
                 out |-> asn1_tag_dump_string(n.value)]
           [] tag.type = "ASN1_TAG_BOOLEAN" ->
                [ret |-> TRUE, name |-> tag.name, candump |-> FALSE,
                 out |-> asn1_tag_dump_boolean(n.value)]
           [] tag.type = "ASN1_TAG_INTEGER" ->
                [ret |-> TRUE, name |-> tag.name, candump |-> FALSE,
                 out |-> asn1_tag_dump_integer(n.value, undef)]
           [] tag.type = "ASN1_TAG_UTC_TIME" ->
                [ret |-> TRUE, name |-> tag.name, candump |-> FALSE,
                 out |-> NoValue]
           [] tag.type = "ASN1_TAG_OBJECT_ID" ->
                [ret |-> TRUE, name |-> tag.name, candump |-> FALSE,
                 out |-> asn1_tag_dump_object_id(n.value, undef)]

\* asn1_tag_dump(tlv, f, level, &candump): the returned value, the name
\* printed, candump after the call and the value text printed
asn1_tag_dump(n, candump, undef) ==
    IF n.null
    THEN [ret |-> FALSE, name |-> "NULL", candump |-> candump, out |-> NoValue]
    ELSE LET tag == asn1_tags[asn1_get_tag(n.tag)] IN
         CASE tag.type = "ASN1_TAG_GENERIC" ->
                [ret |-> TRUE, name |-> tag.name, candump |-> candump,
                 out |-> NoValue]
           [] tag.type = "ASN1_TAG_STRING" ->
                [ret |-> TRUE, name |-> tag.name, candump |-> FALSE,
                 out |-> asn1_tag_dump_string(n.value)]
           [] tag.type = "ASN1_TAG_BOOLEAN" ->
                [ret |-> TRUE, name |-> tag.name, candump |-> FALSE,
                 out |-> asn1_tag_dump_boolean(n.value)]
           [] tag.type = "ASN1_TAG_INTEGER" ->
                [ret |-> TRUE, name |-> tag.name, candump |-> FALSE,
                 out |-> asn1_tag_dump_integer(n.value, undef)]
           [] tag.type = "ASN1_TAG_UTC_TIME" ->
                [ret |-> TRUE, name |-> tag.name, candump |-> candump,
                 out |-> NoValue]
           [] tag.type = "ASN1_TAG_OBJECT_ID" ->
                [ret |-> TRUE, name |-> tag.name, candump |-> FALSE,
                 out |-> asn1_tag_dump_object_id(n.value, undef)]

\* the tags of the nodes visited: every listed code, and codes not listed
NodeTags == {asn1_tags[k].tag : k \in 1..Len(asn1_tags)}
              \cup {7, 25, 256, 4096, 40706}

NodeBytes == {0, 1, 42, 128, 134, 255}

Nodes ==
    {[null |-> FALSE, tag |-> t, value |-> v, is_leaf |-> l] :
        t \in NodeTags, v \in SeqsUpTo(NodeBytes, 2), l \in BOOLEAN}
    \cup {[null |-> TRUE, tag |-> 0, value |-> <<>>, is_leaf |-> l] : l \in BOOLEAN}

\* what an out-of-bounds read and the uninitialized pstr may hold
Undefined == [byte : {0, 255}, pstr : {"", "numeric oid", "other text"}]

\* bool candump = true; asn1_tag_dump(tlv, stdout, level, &candump);
PrintCbTagDump ==
    /\ dump.pc = "call"
    /\ \E undef \in Undefined :
          LET d == asn1_tag_dump(node, TRUE, undef) IN
          dump' = [pc |-> "dumped", candump |-> d.candump, name |-> d.name,
                   out |-> d.out]
    /\ UNCHANGED <<node, sigvars, tagvars, intvars>>

\* if (is_leaf && candump) dump_buffer(tlv->value, tlv->len, stdout, level);
\* return true;
\* With a null tlv the read of tlv->value is undefined: the call crashes or
\* goes on with whatever it read.
PrintCbRawDump ==
    /\ dump.pc = "dumped"
    /\ LET raw == node.is_leaf /\ dump.candump IN
       IF raw /\ node.null
       THEN \E crash \in BOOLEAN :
               dump' = [pc |-> IF crash THEN "crashed" ELSE "done",
                        candump |-> dump.candump, name |-> dump.name,
                        out |-> dump.out, rawdump |-> ~crash, ret |-> ~crash]
       ELSE dump' = [pc |-> "done", candump |-> dump.candump, name |-> dump.name,
                     out |-> dump.out, rawdump |-> raw, ret |-> TRUE]
    /\ UNCHANGED <<node, sigvars, tagvars, intvars>>

InitDump ==
    /\ node \in Nodes
    /\ dump = [pc |-> "call"]
    /\ SigIdle /\ TagIdle /\ IntIdle

NextDump ==
    \/ PrintCbTagDump
    \/ PrintCbRawDump

SpecDump == InitDump /\ [][NextDump]_vars

----------------------------------------------------------------------------
(* Properties of ecdsa_asn1_get_signature.                                 *)

\* x as exactly RSLEN big-endian bytes, left-padded with zeros
FixedWidth(x) == Zeros(RSLEN - Len(x)) \o x

TooWide(x) == Len(x) > RSLEN

\* the buffer has the structure SEQUENCE{INTEGER, INTEGER}, the SEQUENCE
\* declaring the size of its two elements, and all of it is passed
WellFormed(i) ==
    /\ i.null = "none"
    /\ i.seqtag = ASN1_SEQUENCE_TAG
    /\ i.tag1 = MBEDTLS_ASN1_INTEGER /\ i.tag2 = MBEDTLS_ASN1_INTEGER
    /\ i.form \in 0..4
    /\ i.delta = 0
    /\ i.cut = 0

\* exactly the DER encoding of SEQUENCE{INTEGER a, INTEGER b}, a, b < 2^256,
\* each INTEGER with or without one leading 0x00
ValidDer(i) ==
    /\ WellFormed(i)
    /\ i.form = 0
    /\ i.trail = 0
    /\ i.pad1 <= 1 /\ i.pad2 <= 1
    /\ i.pad1 + Len(i.mag1) >= 1 /\ i.pad2 + Len(i.mag2) >= 1
    /\ ~TooWide(i.mag1) /\ ~TooWide(i.mag2)

\* C1: on the DER encoding of SEQUENCE{INTEGER a, INTEGER b} with a, b < 2^256
\* the call returns 0, rval is a and sval is b, each as exactly 32 big-endian
\* bytes left-padded with zeros.
C1_Decompose ==
    (pc = "done" /\ ValidDer(inp)) =>
        /\ res = 0
        /\ rval = FixedWidth(inp.mag1)
        /\ sval = FixedWidth(inp.mag2)

\* a = 2^255 + ... in 32 bytes behind a 0x00, b = 2 in one byte
C1_Witness ==
    /\ pc = "done" /\ ValidDer(inp) /\ res = 0
    /\ inp.pad1 = 1 /\ Len(inp.mag1) = RSLEN /\ inp.mag1[1] = 128
    /\ inp.pad2 = 0 /\ inp.mag2 = <<2>>
    /\ sval = Zeros(RSLEN - 1) \o <<2>>

\* C2: an input whose SEQUENCE declares a length different from the size of
\* the two INTEGER elements that follow its header never returns success.
C2_DeclaredLengthChecked ==
    (pc = "done" /\ inp.null = "none" /\ inp.delta # 0) => res # 0

\* C3: a valid encoding followed by extra bytes returns status 2, and no
\* other failure cause (a return from any step but the final size check)
\* returns 2.
C3_TrailingData ==
    /\ []((pc = "done" /\ ValidDer([inp EXCEPT !.trail = 0]) /\ inp.trail >= 1)
            => res = STATUS_TRAILING)
    /\ [][(pc' = "done" /\ pc # "check") =>
            (res' # STATUS_TRAILING /\ res' # 0)]_vars
    /\ [][(pc' = "done" /\ pc = "check" /\ res' # 0) =>
            (res' = STATUS_TRAILING /\ end # p)]_vars

C3_Witness ==
    /\ pc = "done" /\ res = STATUS_TRAILING
    /\ ValidDer([inp EXCEPT !.trail = 0]) /\ inp.trail >= 1

\* buf is not 32 bytes cut out of a wider magnitude x
NotTruncated(buf, x) ==
    \A k \in 0..(Len(x) - RSLEN - 1) :
        buf # SubSeq(x, k + 1, k + RSLEN) /\ buf # SubSeq(x, k + 2, k + 1 + RSLEN)

\* C4: when either magnitude needs more than 32 bytes the call returns the
\* capacity failure, rval and sval stay 32 bytes and never hold 32 bytes cut
\* out of a wider magnitude; a 33-byte INTEGER made of 0x00 and a 32-byte
\* magnitude is not rejected.
C4_Capacity ==
    /\ Len(rval) = RSLEN /\ Len(sval) = RSLEN
    /\ (pc = "done" /\ WellFormed(inp)) =>
        /\ (TooWide(inp.mag1) \/ TooWide(inp.mag2))
              => res = MBEDTLS_ERR_MPI_BUFFER_TOO_SMALL
        /\ NotTruncated(rval, inp.mag1) /\ NotTruncated(sval, inp.mag2)
        /\ (~TooWide(inp.mag1) /\ ~TooWide(inp.mag2))
              => res # MBEDTLS_ERR_MPI_BUFFER_TOO_SMALL
        /\ (ValidDer(inp) /\ inp.pad1 = 1 /\ Len(inp.mag1) = RSLEN) => res = 0

\* the first integer fits and is written, the second is one byte too wide
C4_Witness ==
    /\ pc = "done" /\ WellFormed(inp)
    /\ inp.pad1 = 1 /\ Len(inp.mag1) = RSLEN /\ TooWide(inp.mag2)
    /\ res = MBEDTLS_ERR_MPI_BUFFER_TOO_SMALL
    /\ rval = FixedWidth(inp.mag1) /\ sval = Unwritten

\* C10: a call that fails on a null argument or zero length, on the outer
\* tag or on the first INTEGER leaves rval and sval unchanged; sval changes
\* only in the second write, when rval holds the first integer and the second
\* INTEGER is parsed; a call that returns 2 has written both integers.
C10_WriteOrder ==
    /\ [][(pc' = "done" /\ pc \in {"call", "seq", "mpi_r"}) =>
            (rval' = Unwritten /\ sval' = Unwritten)]_vars
    /\ [](res = STATUS_NULL => (rval = Unwritten /\ sval = Unwritten))
    /\ [][sval' # sval =>
            /\ pc = "write_s"
            /\ rval = FixedWidth(inp.mag1)
            /\ xmpi = inp.mag2
            /\ sval' = FixedWidth(xmpi)]_vars
    /\ []((pc = "done" /\ res = STATUS_TRAILING) =>
            (rval = FixedWidth(inp.mag1) /\ sval = FixedWidth(inp.mag2)))

C10_Witness ==
    /\ pc = "done" /\ res = STATUS_TRAILING
    /\ Len(inp.mag1) = RSLEN /\ Len(inp.mag2) = RSLEN
    /\ rval = inp.mag1 /\ sval = inp.mag2

----------------------------------------------------------------------------
(* Properties of the tag table.                                            *)

ListedCodes == {asn1_tags[k].tag : k \in 1..Len(asn1_tags)}

\* C5: a tag code absent from asn1_tags looks up the first entry: code 0,
\* "Unknown ???", Generic.
C5_AbsentIsUnknown ==
    (found # 0 /\ tlvtag \notin ListedCodes) =>
        /\ found = 1
        /\ asn1_tags[found] = Entry(0, "Unknown ???", "ASN1_TAG_GENERIC")

\* C6: asn1_tags is strictly ascending under asn1_sort_tag with code 0 first,
\* and the lookup of a listed code returns the entry with that code.
C6_ListedIsFound ==
    /\ asn1_tags[1].tag = 0
    /\ \A k \in 1..(Len(asn1_tags) - 1) :
          asn1_sort_tag(asn1_tags[k].tag) < asn1_sort_tag(asn1_tags[k + 1].tag)
    /\ (found # 0 /\ tlvtag \in ListedCodes) => asn1_tags[found].tag = tlvtag

C6_Witness ==
    /\ tlvtag = 165 /\ found = Len(asn1_tags) /\ asn1_tags[found].name = "[5]"

----------------------------------------------------------------------------
(* Properties of asn1_value_integer.                                       *)

\* nibble k of the value: even k the high nibble of byte k / 2, odd k the low
Nibble(value, k) ==
    IF k % 2 = 0 THEN value[k \div 2 + 1] \div 16 ELSE value[k \div 2 + 1] % 16

RECURSIVE Digits(_, _, _, _)
\* result = result * 10 + nibble, for the nibbles k, k + 1, ..., e - 1
Digits(value, k, e, result) ==
    IF k >= e THEN result
    ELSE Digits(value, k + 1, e, result * 10 + Nibble(value, k))

\* C7: with end > 2 * len or start >= end the result is 0 and no byte is
\* read; otherwise the result is result = result * 10 + nibble over the
\* nibbles start .. end - 1 in order, and every byte index read is below len.
C7_PackedDecimal ==
    vout.done =>
        IF vend > 2 * Len(vbytes) \/ vstart >= vend
        THEN vout.ret = 0 /\ vout.reads = {}
        ELSE /\ vout.ret = Digits(vbytes, vstart, vend, 0)
             /\ \A k \in vout.reads : k < Len(vbytes)

\* bytes 0x12 0x34, start 0, end 4 gives 1234
C7_Witness ==
    /\ vout.done /\ vbytes = <<18, 52>> /\ vstart = 0 /\ vend = 4
    /\ vout.ret = 1234 /\ vout.reads = {0, 1}

----------------------------------------------------------------------------
(* Properties of print_cb.                                                 *)

Category(n) == asn1_tags[asn1_get_tag(n.tag)].type

\* C8: for a non-null node the raw dump is made exactly when the node is a
\* leaf and the value was not consumed; it is not consumed exactly for the
\* categories Generic and UtcTime (unknown tags included), consumed exactly
\* for Boolean, Integer, String and ObjectId.
C8_RawDumpIffNotConsumed ==
    (dump.pc = "done" /\ ~node.null) =>
        /\ dump.rawdump <=> (node.is_leaf /\ dump.candump)
        /\ dump.candump <=> Category(node) \in {"ASN1_TAG_GENERIC", "ASN1_TAG_UTC_TIME"}
        /\ ~dump.candump <=> Category(node) \in
              {"ASN1_TAG_BOOLEAN", "ASN1_TAG_INTEGER", "ASN1_TAG_STRING",
               "ASN1_TAG_OBJECT_ID"}
        /\ dump.name = "Unknown ???" => dump.candump
        /\ ~node.is_leaf => ~dump.rawdump

\* a UTCTime leaf is dumped raw
C8_Witness ==
    /\ dump.pc = "done" /\ ~node.null /\ node.is_leaf
    /\ node.tag = 23 /\ node.value = <<42, 134>>
    /\ dump.candump /\ dump.rawdump

\* the value of the node cannot be interpreted in its category
InterpretationFails(n) ==
    \/ Category(n) = "ASN1_TAG_BOOLEAN" /\ Len(n.value) = 0
    \/ Category(n) = "ASN1_TAG_OBJECT_ID"
         /\ mbedtls_oid_get_numeric_string(n.value, "").ret # 0

\* C9: the callback returns true for every node, and a leaf whose value
\* cannot be interpreted in its category is still dumped raw.
C9_FailureDegradesToRaw ==
    (dump.pc = "done" /\ ~node.null) =>
        /\ dump.ret = TRUE
        /\ (node.is_leaf /\ InterpretationFails(node)) => dump.rawdump

====
